---- MODULE Spec2Model ----
(***************************************************************************)
(* The reverse-proxy route frontend/app/api/backend/[...path]/route.ts:    *)
(* its GET and POST handlers, the fetch() call each of them makes, the     *)
(* text() reads of the inbound and the upstream bodies and the Response    *)
(* each handler builds.  Strings are TLA+ strings, bodies on the wire are  *)
(* sequences of bytes (0..255), JavaScript strings read from or written to *)
(* a body are sequences of Unicode scalar values.                          *)
(*                                                                         *)
(* The demo chat frontend/app/demo/page.tsx: the state of DemoChat, what   *)
(* its event handlers close over, and sendMessage from await to await.     *)
(***************************************************************************)
EXTENDS Integers, Sequences, FiniteSets, TLC

VARIABLES
  env,      \* process.env.NEXT_PUBLIC_BACKEND_URL when the module is loaded
  BACKEND,  \* route.ts:4, the module constant
  pc,       \* per invocation: where the handler is suspended
  req,      \* per invocation: the inbound request
  url,      \* per invocation: the handler's local `url`
  body,     \* per invocation: POST's local `body`, once req.text() resolved
  sent,     \* per invocation: the HTTP requests fetch() put on the wire
  answers,  \* per invocation: the upstream's answers to them, in order
  r,        \* per invocation: the handler's local `r`, once fetch resolved
  text,     \* per invocation: the handler's local `text`, once r.text() resolved
  result,   \* per invocation: what the handler returned or threw
  \* frontend/app/demo/page.tsx, the DemoChat component:
  messages,  \* the `messages` state (page.tsx:12)
  input,     \* the `input` state (page.tsx:18)
  loading,   \* the `loading` state (page.tsx:19)
  sessionId, \* the `sessionId` state (page.tsx:20)
  rendered,  \* input, loading and sessionId as of the last render: what the
             \* handlers of that render close over
  calls,     \* per call of sendMessage that went past line 28: where it is
             \* suspended, its locals, the requests it made
  lastSend,  \* how the last call of sendMessage left line 28
  \* frontend/app/knowledge/page.tsx, the KnowledgePage component:
  selectedChatbot,  \* the `selectedChatbot` state (page.tsx:23)
  documents,        \* the `documents` state (page.tsx:24)
  knowledgeLoading, \* the `loading` state (page.tsx:25)
  uploading,        \* the `uploading` state (page.tsx:26)
  fetches,          \* per call of fetchDocuments: where it is suspended, the
                    \* selectedChatbot it closed over, who awaits it
  uploads,          \* per call of handleFileUpload: where it is suspended, its
                    \* files and the selectedChatbot it closed over, what it
                    \* has done so far
  \* the layout's AuthProvider:
  user,          \* the `user` state
  token,         \* the `token` state
  localStorage,  \* window.localStorage: per key its string, or null
  logins,        \* the suspended calls of login, oldest first
  lastLogin,     \* how the backend answered the call of login that returned
                 \* last, and what that call returned
  pathname       \* where the router is

proxyVars == <<env, BACKEND, pc, req, url, body, sent, answers, r, text, result>>
demoVars == <<messages, input, loading, sessionId, rendered, calls, lastSend>>
knowledgeVars ==
  <<selectedChatbot, documents, knowledgeLoading, uploading, fetches, uploads>>
authVars == <<user, token, localStorage, logins, lastLogin, pathname>>
vars == <<proxyVars, demoVars, knowledgeVars, authVars>>

-----------------------------------------------------------------------------
(* Bounds of the model.                                                    *)

\* Handler invocations the host runs together.
MaxInFlight == 2
\* Longest captured path, in segments.
MaxSegs == 2
\* Longest body, in chunks of BodyChunks.
MaxBodyChunks == 2
\* Redirect answers the upstream gives to one fetch.
MaxRedirects == 1
\* Messages the visitor of the demo chat sends.
MaxSends == 2
\* Calls of handleFileUpload on the knowledge page.
MaxUploads == 2
\* Files in one call of handleFileUpload.
MaxFiles == 2
\* Calls of fetchDocuments suspended together.
MaxFetches == 2
\* Calls of login suspended together.
MaxLogins == 2

Slots == 1..MaxInFlight

-----------------------------------------------------------------------------
(* JavaScript values.                                                      *)

\* JavaScript null / undefined where a string is expected; no header value,
\* URL or query string of the model equals it.
null == "<null>"

\* An optional value that is not a string: absent, or present.
Unset == <<>>
Some(v) == <<v>>

\* `a ?? b` in the place of `a || b`: only null gives way to b.
OrElseNullish(a, b) == IF a = null THEN b ELSE a

\* `a || b` on string-or-null operands: null and "" are falsy.
OrElse(a, b) == IF a = null \/ a = "" THEN b ELSE a

\* Headers.get(name): the value, or null when the header is absent.
HeadersGet(headers, name) ==
  IF name \in DOMAIN headers THEN headers[name] ELSE null

\* Array.prototype.join('/'): the first element, then '/' and each next one.
RECURSIVE JoinFrom(_, _, _)
JoinFrom(segs, k, acc) ==
  IF k > Len(segs) THEN acc
  ELSE JoinFrom(segs, k + 1, IF k = 1 THEN segs[k] ELSE acc \o "/" \o segs[k])

Join(segs) == JoinFrom(segs, 1, "")

-----------------------------------------------------------------------------
(* Body.text() and the body a string becomes: UTF-8 decode and encode.     *)

\* U+FFFD, what the decoder emits for a malformed sequence.
ReplacementChar == 65533

BOM == <<239, 187, 191>>

\* The UTF-8 decoder's byte handler, run from byte k on: cp is the code
\* point so far, needed the continuation bytes still expected, lower..upper
\* the range the next continuation byte must lie in.
RECURSIVE Utf8DecodeFrom(_, _, _, _, _, _)
Utf8DecodeFrom(bs, k, cp, needed, lower, upper) ==
  IF k > Len(bs)
  THEN IF needed # 0 THEN <<ReplacementChar>> ELSE <<>>
  ELSE LET b == bs[k] IN
    IF needed = 0 THEN
      IF b <= 127 THEN <<b>> \o Utf8DecodeFrom(bs, k + 1, 0, 0, 128, 191)
      ELSE IF b >= 194 /\ b <= 223
        THEN Utf8DecodeFrom(bs, k + 1, b - 192, 1, 128, 191)
      ELSE IF b >= 224 /\ b <= 239
        THEN Utf8DecodeFrom(bs, k + 1, b - 224, 2,
                            IF b = 224 THEN 160 ELSE 128,
                            IF b = 237 THEN 159 ELSE 191)
      ELSE IF b >= 240 /\ b <= 244
        THEN Utf8DecodeFrom(bs, k + 1, b - 240, 3,
                            IF b = 240 THEN 144 ELSE 128,
                            IF b = 244 THEN 143 ELSE 191)
      ELSE <<ReplacementChar>> \o Utf8DecodeFrom(bs, k + 1, 0, 0, 128, 191)
    ELSE IF b < lower \/ b > upper
      \* the byte is put back and handled again with the decoder reset
      THEN <<ReplacementChar>> \o Utf8DecodeFrom(bs, k, 0, 0, 128, 191)
    ELSE IF needed = 1
      THEN <<cp * 64 + (b - 128)>> \o Utf8DecodeFrom(bs, k + 1, 0, 0, 128, 191)
    ELSE Utf8DecodeFrom(bs, k + 1, cp * 64 + (b - 128), needed - 1, 128, 191)

\* Body.text(): "UTF-8 decode": a leading byte order mark is dropped, the
\* rest goes through the decoder.
Utf8Decode(bs) ==
  IF Len(bs) >= 3 /\ SubSeq(bs, 1, 3) = BOM
  THEN Utf8DecodeFrom(bs, 4, 0, 0, 128, 191)
  ELSE Utf8DecodeFrom(bs, 1, 0, 0, 128, 191)

\* The bytes of one scalar value.
Utf8EncodeChar(c) ==
  IF c < 128 THEN <<c>>
  ELSE IF c < 2048 THEN <<192 + (c \div 64), 128 + (c % 64)>>
  ELSE IF c < 65536
    THEN <<224 + (c \div 4096), 128 + ((c \div 64) % 64), 128 + (c % 64)>>
  ELSE <<240 + (c \div 262144), 128 + ((c \div 4096) % 64),
         128 + ((c \div 64) % 64), 128 + (c % 64)>>

\* A body written as Latin-1, one byte for each character, in the place of
\* UTF-8.
Utf8EncodeLatin1(str) == [k \in 1..Len(str) |-> str[k] % 256]

\* A string given as a body (fetch's init.body, new Response(text)): its
\* UTF-8 encoding.
RECURSIVE Utf8EncodeFrom(_, _)
Utf8EncodeFrom(str, k) ==
  IF k > Len(str) THEN <<>>
  ELSE Utf8EncodeChar(str[k]) \o Utf8EncodeFrom(str, k + 1)

Utf8Encode(str) == Utf8EncodeFrom(str, 1)

-----------------------------------------------------------------------------
(* The demo chat, frontend/app/demo/page.tsx (DemoChat).                   *)

Greeting ==
  "Hello! I'm your ChatBase Pro demo assistant. Ask me anything about this platform!"
Trouble ==
  "Sorry, I'm having trouble connecting. Make sure the backend server is running at http://localhost:8000"
Suggestion == "How much does it cost?"

Message(role, content) == [role |-> role, content |-> content]

\* String.prototype.trim: white space off both ends.
WhiteSpace == {" ", "\t", "\n"}
RECURSIVE TrimStart(_)
TrimStart(str) ==
  IF Len(str) > 0 /\ SubSeq(str, 1, 1) \in WhiteSpace
  THEN TrimStart(SubSeq(str, 2, Len(str))) ELSE str
RECURSIVE TrimEnd(_)
TrimEnd(str) ==
  IF Len(str) > 0 /\ SubSeq(str, Len(str), Len(str)) \in WhiteSpace
  THEN TrimEnd(SubSeq(str, 1, Len(str) - 1)) ELSE str
Trim(str) == TrimEnd(TrimStart(str))

\* value === null in the place of !value.
IsNull(value) == value = null

\* !value for a string or null.
Falsy(value) == value = null \/ value = ""

CallIds == 1..MaxSends

\* A call of sendMessage: where it is suspended; its constants userMessage
\* and sessionId (the sessionId of the render whose handler was called);
\* whether it posted to /api/start and how that went; the body of its chat
\* request, if it made one, and how that went; the assistant message it
\* appended, if any.
NoCall ==
  [at |-> "unused", userMessage |-> null, sessionId |-> null,
   start |-> "none", startedId |-> null, chat |-> <<>>, chatGot |-> "none",
   appended |-> null]

Used == {c \in CallIds : calls[c].at # "unused"}
Suspended == {c \in CallIds : calls[c].at \in {"start", "startJson", "chat", "chatJson"}}

\* The component as mounted (page.tsx:12-20).
Mounted ==
  /\ messages = <<Message("assistant", Greeting)>>
  /\ input = ""
  /\ loading = FALSE
  /\ sessionId = null
  /\ rendered = [input |-> "", loading |-> FALSE, sessionId |-> null]
  /\ calls = [c \in CallIds |-> NoCall]
  /\ lastSend = "none"

\* What a render makes of the state.
Snapshot(i, l, s) == [input |-> i, loading |-> l, sessionId |-> s]

\* React renders the component with the state updates made outside an event
\* handler (after an await).
Render ==
  /\ rendered # Snapshot(input, loading, sessionId)
  /\ rendered' = Snapshot(input, loading, sessionId)
  /\ UNCHANGED <<proxyVars, knowledgeVars, authVars, messages, input, loading, sessionId, calls, lastSend>>

\* setInput in an event handler; React renders before the next event.
setInput(value) ==
  /\ input' = value
  /\ rendered' = Snapshot(value, loading, sessionId)
  /\ UNCHANGED <<proxyVars, knowledgeVars, authVars, messages, loading, sessionId, calls, lastSend>>

\* page.tsx:211-214: the visitor types; the field is disabled while the
\* rendered loading is true.
onChange(value) ==
  /\ ~rendered.loading
  /\ setInput(value)

\* page.tsx:280: the visitor clicks a suggestion, at any time.
SuggestionClicked ==
  /\ setInput(Suggestion)

\* page.tsx:50-57: the chat request, with the call's own userMessage and
\* sessionId.
ChatRequest(call) == [text |-> call.userMessage, session_id |-> call.sessionId]

\* The guard of line 28 without its `|| loading`.
AcceptsWhileLoading(view) == Trim(view.input) # ""

\* page.tsx:28, negated: the call goes on.
Accepts(view) == ~(Trim(view.input) = "" \/ view.loading)

\* page.tsx:27-38 or :27-50: Enter or the Send button calls the sendMessage of
\* the last render; it goes past line 28, makes its state updates, and runs
\* to its first await: the fetch of /api/start when its sessionId is falsy,
\* the fetch of /api/chat otherwise.  React renders before the next event.
sendMessage ==
  /\ Accepts(rendered)
  /\ Cardinality(Used) < MaxSends
  /\ LET c == Cardinality(Used) + 1
         call == [NoCall EXCEPT !.userMessage = Trim(rendered.input),
                                !.sessionId = rendered.sessionId]
     IN calls' = [calls EXCEPT ![c] =
                    IF Falsy(call.sessionId)
                    THEN [call EXCEPT !.at = "start", !.start = "posted"]
                    ELSE [call EXCEPT !.at = "chat", !.chat = <<ChatRequest(call)>>]]
  /\ input' = ""
  /\ messages' = Append(messages, Message("user", Trim(rendered.input)))
  /\ loading' = TRUE
  /\ rendered' = Snapshot("", TRUE, sessionId)
  /\ lastSend' = "accepted"
  /\ UNCHANGED <<proxyVars, knowledgeVars, authVars, sessionId>>

\* page.tsx:28: the call returns at once.
sendMessageReturns ==
  /\ ~Accepts(rendered)
  /\ lastSend' = "returned"
  /\ UNCHANGED <<proxyVars, knowledgeVars, authVars, messages, input, loading, sessionId, rendered, calls>>

\* A catch block that appends nothing.
CaughtSilently(c, how) ==
  /\ calls' = [calls EXCEPT ![c] = [how EXCEPT !.at = "finished"]]
  /\ loading' = FALSE
  /\ UNCHANGED <<proxyVars, knowledgeVars, authVars, messages, input, sessionId, rendered, lastSend>>

\* page.tsx:65-73: something in the try block threw; the catch block appends
\* the fixed message and the finally block clears loading.
Caught(c, how) ==
  /\ calls' = [calls EXCEPT ![c] = [how EXCEPT !.at = "finished", !.appended = Trouble]]
  /\ messages' = Append(messages, Message("assistant", Trouble))
  /\ loading' = FALSE
  /\ UNCHANGED <<proxyVars, knowledgeVars, authVars, input, sessionId, rendered, lastSend>>

\* page.tsx:38: the fetch of /api/start rejects.
StartRejects(c) ==
  /\ calls[c].at = "start"
  /\ Caught(c, [calls[c] EXCEPT !.start = "rejected"])

\* page.tsx:38-50: /api/start answers with a status that is not ok; the call
\* goes on to the chat request.
StartNotOk(c) ==
  /\ calls[c].at = "start"
  /\ calls' = [calls EXCEPT ![c] =
                 [@ EXCEPT !.at = "chat", !.start = "notok",
                           !.chat = <<ChatRequest(calls[c])>>]]
  /\ UNCHANGED <<proxyVars, knowledgeVars, authVars, messages, input, loading, sessionId, rendered, lastSend>>

\* page.tsx:38-44: /api/start answers ok; the call awaits the JSON.
StartOk(c) ==
  /\ calls[c].at = "start"
  /\ calls' = [calls EXCEPT ![c] = [@ EXCEPT !.at = "startJson"]]
  /\ UNCHANGED <<proxyVars, knowledgeVars, authVars, messages, input, loading, sessionId, rendered, lastSend>>

\* page.tsx:44: the body of the start answer is no JSON.
StartJsonRejects(c) ==
  /\ calls[c].at = "startJson"
  /\ Caught(c, [calls[c] EXCEPT !.start = "unreadable"])

\* page.tsx:44-50: the start answer is read, its session_id is stored with
\* setSessionId, and the call goes on to the chat request.
StartJsonResolves(c, id) ==
  /\ calls[c].at = "startJson"
  /\ sessionId' = id
  /\ calls' = [calls EXCEPT ![c] =
                 [@ EXCEPT !.at = "chat", !.start = "ok", !.startedId = id,
                           !.chat = <<ChatRequest(calls[c])>>]]
  /\ UNCHANGED <<proxyVars, knowledgeVars, authVars, messages, input, loading, rendered, lastSend>>

\* page.tsx:50: the fetch of /api/chat rejects.
ChatRejects(c) ==
  /\ calls[c].at = "chat"
  /\ Caught(c, [calls[c] EXCEPT !.chatGot = "rejected"])

\* page.tsx:59-63: /api/chat answers with a status that is not ok.
ChatNotOk(c) ==
  /\ calls[c].at = "chat"
  /\ Caught(c, [calls[c] EXCEPT !.chatGot = "notok"])

\* page.tsx:59-60: /api/chat answers ok; the call awaits the JSON.
ChatOk(c) ==
  /\ calls[c].at = "chat"
  /\ calls' = [calls EXCEPT ![c] = [@ EXCEPT !.at = "chatJson"]]
  /\ UNCHANGED <<proxyVars, knowledgeVars, authVars, messages, input, loading, sessionId, rendered, lastSend>>

\* page.tsx:60: the body of the chat answer is no JSON.
ChatJsonRejects(c) ==
  /\ calls[c].at = "chatJson"
  /\ Caught(c, [calls[c] EXCEPT !.chatGot = "unreadable"])

\* page.tsx:60-61 and :72: the reply is appended and loading is cleared.
ChatJsonResolves(c, reply) ==
  /\ calls[c].at = "chatJson"
  /\ calls' = [calls EXCEPT ![c] =
                 [@ EXCEPT !.at = "finished", !.chatGot = "ok", !.appended = reply]]
  /\ messages' = Append(messages, Message("assistant", reply))
  /\ loading' = FALSE
  /\ UNCHANGED <<proxyVars, knowledgeVars, authVars, input, sessionId, rendered, lastSend>>

\* What the visitor types; the session_id of a start answer (an id, an empty
\* one, none); the replies.
Typed == {"", "  ", " hi\n"}
SessionIds == {"s1", "", null}
Replies == {"It is free."}

NextDemo ==
  \/ Render
  \/ \E value \in Typed : onChange(value)
  \/ SuggestionClicked
  \/ sendMessage
  \/ sendMessageReturns
  \/ \E c \in CallIds : StartRejects(c)
  \/ \E c \in CallIds : StartNotOk(c)
  \/ \E c \in CallIds : StartOk(c)
  \/ \E c \in CallIds : StartJsonRejects(c)
  \/ \E c \in CallIds : \E id \in SessionIds : StartJsonResolves(c, id)
  \/ \E c \in CallIds : ChatRejects(c)
  \/ \E c \in CallIds : ChatNotOk(c)
  \/ \E c \in CallIds : ChatOk(c)
  \/ \E c \in CallIds : ChatJsonRejects(c)
  \/ \E c \in CallIds : \E reply \in Replies : ChatJsonResolves(c, reply)

-----------------------------------------------------------------------------
(* The knowledge page, frontend/app/knowledge/page.tsx (KnowledgePage).    *)

\* The ids of the chatbots of the select, and what Number(e.target.value)
\* gives for "Choose a chatbot...", written as numerals.
Chatbots == {"1", "2"}
NoChatbot == "0"

\* !selectedChatbot
Unselected(chatbot) == chatbot = null \/ chatbot = NoChatbot

\* A FileList of n files.
FileList(n) == [k \in 1..n |-> IF k % 2 = 1 THEN "a.pdf" ELSE "b.txt"]

FetchIds == 1..MaxFetches
UploadIds == 1..MaxUploads

\* A call of fetchDocuments: where it is suspended ("fetch", "json"), the
\* chatbot of its URL, and the call of handleFileUpload that awaits it (0: the
\* effect ran it).  `fetches` holds the suspended calls, oldest first.

\* A call of handleFileUpload: where it is suspended; its constants
\* selectedChatbot and files; its loop counter i (from 1); the upload
\* requests it made, how each went, and the files whose refresh has ended.
NoUpload ==
  [at |-> "unused", chatbot |-> null, files |-> <<>>, i |-> 0,
   requests |-> <<>>, results |-> <<>>, refreshed |-> {}]

FetchesInFlight == {f \in FetchIds : f <= Len(fetches)}
UploadsInFlight == {c \in UploadIds : uploads[c].at = "upload"}
UploadsCalled == {c \in UploadIds : uploads[c].at # "unused"}

\* The component as mounted (page.tsx:22-27).
KnowledgeMounted ==
  /\ selectedChatbot = null
  /\ documents = <<>>
  /\ knowledgeLoading = FALSE
  /\ uploading = FALSE
  /\ fetches = <<>>
  /\ uploads = [c \in UploadIds |-> NoUpload]

\* The documents the backend lists for a chatbot (data.documents).
DocumentsOf(chatbot) == <<[chatbot |-> chatbot]>>

\* page.tsx:58-63: fetchDocuments with the given selectedChatbot (not
\* falsy), up to its await fetch: the fetches with that call added.
Fetching(chatbot, awaitedBy) ==
  Append(fetches, [at |-> "fetch", chatbot |-> chatbot, awaitedBy |-> awaitedBy])

CanFetch == Len(fetches) < MaxFetches

\* The suspended calls without the f-th.
Without(f) == [k \in 1..(Len(fetches) - 1) |-> fetches[IF k < f THEN k ELSE k + 1]]

\* page.tsx:50 and :162, then :35-39 and :58-63: selectedChatbot is set to
\* another value, the component renders, the effect runs and calls
\* fetchDocuments, which returns at line 59 when the value is falsy and sets
\* loading and fetches the documents otherwise.
setSelectedChatbot(chatbot) ==
  /\ chatbot # selectedChatbot
  /\ selectedChatbot' = chatbot
  /\ IF Unselected(chatbot)
     THEN UNCHANGED <<knowledgeLoading, fetches>>
     ELSE /\ CanFetch
          /\ knowledgeLoading' = TRUE
          /\ fetches' = Fetching(chatbot, 0)
  /\ UNCHANGED <<proxyVars, demoVars, authVars, documents, uploading, uploads>>

\* page.tsx:88-92: the upload request for the i-th file, to the chatbot the
\* call closed over.
UploadRequest(upload, i) == [file |-> upload.files[i], chatbot |-> upload.chatbot]

\* page.tsx:180: the upload area, with its drop handler and its file input,
\* is rendered when selectedChatbot is not falsy.
UploadAreaShown == ~Unselected(selectedChatbot)

\* page.tsx:105-109 or :205, then :77-88: a drop or a file selection calls
\* handleFileUpload, which goes past line 78, sets uploading and posts its
\* first file.
handleFileUpload(files) ==
  /\ UploadAreaShown
  /\ ~(Unselected(selectedChatbot) \/ Len(files) = 0)
  /\ Cardinality(UploadsCalled) < MaxUploads
  /\ LET c == Cardinality(UploadsCalled) + 1
         upload == [NoUpload EXCEPT !.chatbot = selectedChatbot, !.files = files]
     IN uploads' = [uploads EXCEPT ![c] =
                      [upload EXCEPT !.at = "upload", !.i = 1,
                                     !.requests = <<UploadRequest(upload, 1)>>]]
  /\ uploading' = TRUE
  /\ UNCHANGED <<proxyVars, demoVars, authVars, selectedChatbot, documents, knowledgeLoading, fetches>>

\* page.tsx:78: handleFileUpload returns at once.
handleFileUploadReturns(files) ==
  /\ UploadAreaShown
  /\ Unselected(selectedChatbot) \/ Len(files) = 0
  /\ Cardinality(UploadsCalled) < MaxUploads
  /\ uploads' = [uploads EXCEPT ![Cardinality(UploadsCalled) + 1] =
                   [NoUpload EXCEPT !.at = "returned", !.chatbot = selectedChatbot,
                                    !.files = files]]
  /\ UNCHANGED <<proxyVars, demoVars, authVars, selectedChatbot, documents, knowledgeLoading, uploading, fetches>>

\* page.tsx:82-102: the loop goes on after file i: the next file is posted,
\* or, after the last file, uploading is cleared.  The call and the value of
\* uploading after it.
Continued(upload) ==
  IF upload.i < Len(upload.files)
  THEN [upload EXCEPT !.at = "upload", !.i = @ + 1,
                      !.requests = Append(@, UploadRequest(upload, upload.i + 1))]
  ELSE [upload EXCEPT !.at = "finished"]

UploadingAfter(upload) ==
  IF upload.i < Len(upload.files) THEN uploading ELSE FALSE

\* A loop that a rejected upload ends.
UploadRejectsStops(c) ==
  /\ uploads[c].at = "upload"
  /\ uploads' = [uploads EXCEPT ![c] =
                   [@ EXCEPT !.at = "finished", !.results = Append(@, "rejected")]]
  /\ uploading' = FALSE
  /\ UNCHANGED <<proxyVars, demoVars, authVars, selectedChatbot, documents, knowledgeLoading, fetches>>

\* page.tsx:88 and :97-99: the upload fetch rejects; the catch block logs
\* and the loop goes on.
UploadRejects(c) ==
  /\ uploads[c].at = "upload"
  /\ uploads' = [uploads EXCEPT ![c] =
                   Continued([uploads[c] EXCEPT !.results = Append(@, "rejected")])]
  /\ uploading' = UploadingAfter(uploads[c])
  /\ UNCHANGED <<proxyVars, demoVars, authVars, selectedChatbot, documents, knowledgeLoading, fetches>>

\* page.tsx:94: the upload answer is not ok; the loop goes on.
UploadNotOk(c) ==
  /\ uploads[c].at = "upload"
  /\ uploads' = [uploads EXCEPT ![c] =
                   Continued([uploads[c] EXCEPT !.results = Append(@, "notok")])]
  /\ uploading' = UploadingAfter(uploads[c])
  /\ UNCHANGED <<proxyVars, demoVars, authVars, selectedChatbot, documents, knowledgeLoading, fetches>>

\* An upload whose refresh is started and not awaited.
UploadOkNoAwait(c) ==
  /\ uploads[c].at = "upload"
  /\ CanFetch
  /\ knowledgeLoading' = TRUE
  /\ fetches' = Fetching(uploads[c].chatbot, 0)
  /\ uploads' = [uploads EXCEPT ![c] =
                   Continued([uploads[c] EXCEPT !.results = Append(@, "ok")])]
  /\ uploading' = UploadingAfter(uploads[c])
  /\ UNCHANGED <<proxyVars, demoVars, authVars, selectedChatbot, documents>>

\* page.tsx:94-95 and :58-63: the upload answer is ok; the call awaits
\* fetchDocuments(), the one of its own render, which sets loading and
\* fetches the documents of the chatbot the call closed over.
UploadOk(c) ==
  /\ uploads[c].at = "upload"
  /\ CanFetch
  /\ knowledgeLoading' = TRUE
  /\ fetches' = Fetching(uploads[c].chatbot, c)
  /\ uploads' = [uploads EXCEPT ![c] =
                   [@ EXCEPT !.at = "refresh", !.results = Append(@, "ok")]]
  /\ UNCHANGED <<proxyVars, demoVars, authVars, selectedChatbot, documents, uploading>>

\* page.tsx:72-75, and :95-102 for the call of handleFileUpload that awaits
\* this fetchDocuments: the finally block clears loading, fetchDocuments
\* resolves, and the awaiting loop goes on.
FetchDocumentsEnds(f) ==
  LET c == fetches[f].awaitedBy
  IN /\ knowledgeLoading' = FALSE
     /\ fetches' = Without(f)
     /\ IF c = 0
        THEN UNCHANGED <<uploads, uploading>>
        ELSE /\ uploads' = [uploads EXCEPT ![c] =
                              Continued([uploads[c] EXCEPT
                                           !.refreshed = @ \cup {uploads[c].i}])]
             /\ uploading' = UploadingAfter(uploads[c])
     /\ UNCHANGED <<proxyVars, demoVars, authVars, selectedChatbot>>

\* page.tsx:63 and :70-74: the documents fetch rejects.
DocumentsRejects(f) ==
  /\ f \in FetchesInFlight
  /\ fetches[f].at = "fetch"
  /\ FetchDocumentsEnds(f)
  /\ UNCHANGED documents

\* page.tsx:66 and :72-74: the documents answer is not ok.
DocumentsNotOk(f) ==
  /\ f \in FetchesInFlight
  /\ fetches[f].at = "fetch"
  /\ FetchDocumentsEnds(f)
  /\ UNCHANGED documents

\* page.tsx:66-67: the documents answer is ok; the call awaits the JSON.
DocumentsOk(f) ==
  /\ f \in FetchesInFlight
  /\ fetches[f].at = "fetch"
  /\ fetches' = [fetches EXCEPT ![f] = [@ EXCEPT !.at = "json"]]
  /\ UNCHANGED <<proxyVars, demoVars, authVars, selectedChatbot, documents, knowledgeLoading, uploading, uploads>>

\* page.tsx:67 and :70-74: the body of the documents answer is no JSON.
DocumentsJsonRejects(f) ==
  /\ f \in FetchesInFlight
  /\ fetches[f].at = "json"
  /\ FetchDocumentsEnds(f)
  /\ UNCHANGED documents

\* page.tsx:67-68 and :72-74: setDocuments with the answer's documents.
DocumentsJsonResolves(f) ==
  /\ f \in FetchesInFlight
  /\ fetches[f].at = "json"
  /\ documents' = DocumentsOf(fetches[f].chatbot)
  /\ FetchDocumentsEnds(f)

FileLists == {FileList(n) : n \in 0..MaxFiles}

NextKnowledge ==
  \/ \E chatbot \in Chatbots \cup {NoChatbot} : setSelectedChatbot(chatbot)
  \/ \E files \in FileLists : handleFileUpload(files)
  \/ \E files \in FileLists : handleFileUploadReturns(files)
  \/ \E c \in UploadIds : UploadRejects(c)
  \/ \E c \in UploadIds : UploadNotOk(c)
  \/ \E c \in UploadIds : UploadOk(c)
  \/ \E f \in FetchIds : DocumentsRejects(f)
  \/ \E f \in FetchIds : DocumentsNotOk(f)
  \/ \E f \in FetchIds : DocumentsOk(f)
  \/ \E f \in FetchIds : DocumentsJsonRejects(f)
  \/ \E f \in FetchIds : DocumentsJsonResolves(f)

-----------------------------------------------------------------------------
(* The layout's AuthProvider (the provider RootLayout renders).            *)

\* JavaScript undefined, as a property a JSON object lacks.
undefined == "<undefined>"

\* String(v), as localStorage.setItem applies it to its value.
String(v) == IF v = undefined THEN "undefined" ELSE IF v = null THEN "null" ELSE v

\* JSON.stringify of a user object, here one with an email; of undefined it
\* is undefined.
Stringify(u) ==
  IF u = undefined THEN undefined ELSE "{\"email\":\"" \o u \o "\"}"

\* The keys of the provider.
Storage(authToken, authUser) == [auth_token |-> authToken, auth_user |-> authUser]

\* useState(null) twice, after the mount effect found nothing stored.
AuthMounted ==
  /\ user = null
  /\ token = null
  /\ localStorage = Storage(null, null)
  /\ logins = <<>>
  /\ lastLogin = [answered |-> "-", returned |-> FALSE]
  /\ pathname = "/dashboard"

LoginIds == 1..MaxLogins

\* The suspended calls of login without the k-th.
Returning(k) == [j \in 1..(Len(logins) - 1) |-> logins[IF j < k THEN j ELSE j + 1]]

\* login up to its await fetch.
login ==
  /\ Len(logins) < MaxLogins
  /\ logins' = Append(logins, "fetch")
  /\ UNCHANGED <<proxyVars, demoVars, knowledgeVars, user, token, localStorage, lastLogin, pathname>>

\* The fetch rejects: catch, return false.
LoginRejects(k) ==
  /\ k <= Len(logins) /\ logins[k] = "fetch"
  /\ logins' = Returning(k)
  /\ lastLogin' = [answered |-> "no", returned |-> FALSE]
  /\ UNCHANGED <<proxyVars, demoVars, knowledgeVars, user, token, localStorage, pathname>>

\* The answer is not ok: return false.
LoginNotOk(k) ==
  /\ k <= Len(logins) /\ logins[k] = "fetch"
  /\ logins' = Returning(k)
  /\ lastLogin' = [answered |-> "notok", returned |-> FALSE]
  /\ UNCHANGED <<proxyVars, demoVars, knowledgeVars, user, token, localStorage, pathname>>

\* The answer is ok: await response.json().
LoginOk(k) ==
  /\ k <= Len(logins) /\ logins[k] = "fetch"
  /\ logins' = [logins EXCEPT ![k] = "json"]
  /\ UNCHANGED <<proxyVars, demoVars, knowledgeVars, user, token, localStorage, lastLogin, pathname>>

\* The body of the ok answer is no JSON: catch, return false.
LoginJsonRejects(k) ==
  /\ k <= Len(logins) /\ logins[k] = "json"
  /\ logins' = Returning(k)
  /\ lastLogin' = [answered |-> "ok", returned |-> FALSE]
  /\ UNCHANGED <<proxyVars, demoVars, knowledgeVars, user, token, localStorage, pathname>>

\* The body of the ok answer is the object `data`: setToken, setUser, both
\* setItem, return true.
LoginJsonResolves(k, data) ==
  /\ k <= Len(logins) /\ logins[k] = "json"
  /\ logins' = Returning(k)
  /\ token' = data.token
  /\ user' = data.user
  /\ localStorage' = Storage(String(data.token), String(Stringify(data.user)))
  /\ lastLogin' = [answered |-> "ok", returned |-> TRUE]
  /\ UNCHANGED <<proxyVars, demoVars, knowledgeVars, pathname>>

\* logout.
logout ==
  /\ token' = null
  /\ user' = null
  /\ localStorage' = Storage(null, null)
  /\ pathname' = "/login"
  /\ UNCHANGED <<proxyVars, demoVars, knowledgeVars, logins, lastLogin>>

\* The logo link of the navigation, in the place of any navigation.
Navigate ==
  /\ pathname' = "/dashboard"
  /\ UNCHANGED <<proxyVars, demoVars, knowledgeVars, user, token, localStorage, logins, lastLogin>>

\* JSON objects the backend answers a login with: two sessions, an object
\* with neither property, an object with a token and no user.
LoginData ==
  {[token |-> "t1", user |-> "a@example.test"],
   [token |-> "t2", user |-> "b@example.test"],
   [token |-> undefined, user |-> undefined],
   [token |-> "t1", user |-> undefined]}

NextAuth ==
  \/ login
  \/ \E k \in LoginIds : LoginRejects(k)
  \/ \E k \in LoginIds : LoginNotOk(k)
  \/ \E k \in LoginIds : LoginOk(k)
  \/ \E k \in LoginIds : LoginJsonRejects(k)
  \/ \E k \in LoginIds, data \in LoginData : LoginJsonResolves(k, data)
  \/ logout
  \/ Navigate

-----------------------------------------------------------------------------
(* The route module.                                                       *)

\* route.ts:4, the right operand of ||
DefaultBackend == "http://localhost:8000"

\* route.ts:4
BackendOf(e) == OrElse(e, DefaultBackend)

\* The template string without its ${req.nextUrl.search}.
TargetUrlNoSearch(base, path, search) == base \o "/" \o Join(path)

\* The template string without the '/' after ${BACKEND}.
TargetUrlNoSlash(base, path, search) == base \o Join(path) \o search

\* route.ts:7 and :14, the template string
TargetUrl(base, path, search) == base \o "/" \o Join(path) \o search

ContentType == "Content-Type"
Location == "Location"
Authorization == "Authorization"
ApplicationJson == "application/json"

\* A GET that passed the inbound body on.
GetRequestWithBody(u, q) ==
  [method |-> "GET", url |-> u, headers |-> <<>>, body |-> Some(q.body)]

\* The request fetch(url) puts on the wire (route.ts:8): a GET, no headers
\* of the handler's, no body.
GetRequest(u, q) ==
  [method |-> "GET", url |-> u, headers |-> <<>>, body |-> Unset]

\* The POST request with ?? in the place of || in its Content-Type.
PostRequestNullish(u, q, str) ==
  [method |-> "POST", url |-> u,
   headers |-> (ContentType :>
                  OrElseNullish(HeadersGet(q.headers, ContentType), ApplicationJson)),
   body |-> Some(Utf8Encode(str))]

\* The request fetch(url, {method, headers, body}) puts on the wire
\* (route.ts:16): only the Content-Type header, the string `body` encoded.
PostRequest(u, q, str) ==
  [method |-> "POST", url |-> u,
   headers |-> (ContentType :>
                  OrElse(HeadersGet(q.headers, ContentType), ApplicationJson)),
   body |-> Some(Utf8Encode(str))]

\* Statuses for which the Response constructor rejects a non-null body.
NullBodyStatus == {101, 103, 204, 205, 304}
\* Statuses on which fetch, in its default redirect mode "follow", goes on
\* to the Location.
RedirectStatus == {301, 302, 303, 307, 308}

\* What the handler has not yet got.
NoRequest == [method |-> "-", path |-> <<>>, search |-> "", headers |-> <<>>,
              body |-> <<>>]
NoResponse == [status |-> 0, headers |-> <<>>, body |-> <<>>]
Pending == [kind |-> "pending"]

\* What the handler ends with: the Response it returns, or what it throws.
Returned(status, headers, bytes) ==
  [kind |-> "response", status |-> status, headers |-> headers, body |-> bytes]
Thrown(name) == [kind |-> "error", name |-> name]

\* The Response with ?? in the place of || in its Content-Type.
NewResponseNullish(str, resp) ==
  IF resp.status \in NullBodyStatus
  THEN Thrown("TypeError")
  ELSE Returned(resp.status,
                (ContentType :>
                   OrElseNullish(HeadersGet(resp.headers, ContentType), ApplicationJson)),
                Utf8Encode(str))

\* new Response(text, { status: r.status, headers: { 'Content-Type': ... } })
\* (route.ts:10 and :18): a body with a null-body status is a TypeError.
NewResponse(str, resp) ==
  IF resp.status \in NullBodyStatus
  THEN Thrown("TypeError")
  ELSE Returned(resp.status,
                (ContentType :>
                   OrElse(HeadersGet(resp.headers, ContentType), ApplicationJson)),
                Utf8Encode(str))

\* The request fetch sends after a redirect answer: to the Location; a POST
\* answered 301 or 302, and any non-GET answered 303, goes on as a GET with
\* no body and no Content-Type.
RedirectedRequest(last, answer) ==
  IF \/ answer.status \in {301, 302} /\ last.method = "POST"
     \/ answer.status = 303 /\ last.method # "GET"
  THEN [method |-> "GET", url |-> answer.headers[Location],
        headers |-> [h \in DOMAIN last.headers \ {ContentType} |-> last.headers[h]],
        body |-> Unset]
  ELSE [last EXCEPT !.url = answer.headers[Location]]

IsRedirect(answer) ==
  answer.status \in RedirectStatus /\ Location \in DOMAIN answer.headers

Init ==
  /\ env \in {null, "", "http://example.test"}
  /\ BACKEND = BackendOf(env)
  /\ pc = [i \in Slots |-> "idle"]
  /\ req = [i \in Slots |-> NoRequest]
  /\ url = [i \in Slots |-> null]
  /\ body = [i \in Slots |-> Unset]
  /\ sent = [i \in Slots |-> <<>>]
  /\ answers = [i \in Slots |-> <<>>]
  /\ r = [i \in Slots |-> NoResponse]
  /\ text = [i \in Slots |-> Unset]
  /\ result = [i \in Slots |-> Pending]
  /\ Mounted
  /\ KnowledgeMounted
  /\ AuthMounted

\* The module reading the environment again for every request.
InvokeReadsEnv(i, q) ==
  /\ pc[i] = "idle"
  /\ req' = [req EXCEPT ![i] = q]
  /\ url' = [url EXCEPT ![i] = TargetUrl(BackendOf(env), q.path, q.search)]
  /\ UNCHANGED <<demoVars, knowledgeVars, authVars, env, BACKEND, body, answers, r, text, result>>

\* The host invokes a handler as invocation i with inbound request q, and
\* the handler computes `url` (route.ts:7 and :14).
Invoke(i, q) ==
  /\ pc[i] = "idle"
  /\ req' = [req EXCEPT ![i] = q]
  /\ url' = [url EXCEPT ![i] = TargetUrl(BACKEND, q.path, q.search)]
  /\ UNCHANGED <<demoVars, knowledgeVars, authVars, env, BACKEND, body, answers, r, text, result>>

\* The handlers route.ts exports (lines 6 and 13).
Exported == {"GET", "POST"}

\* A route module in which the other methods are aliases of POST.
HandlerForAliased(method) ==
  IF method \in {"GET", "HEAD"} THEN "GET"
  ELSE IF method = "OPTIONS" THEN null ELSE "POST"

\* The exported handler the host runs for an inbound method: the export of
\* that name; GET for a HEAD request when no HEAD is exported; none (the host
\* answers by itself) for every other method.
HandlerFor(method) ==
  IF method \in Exported THEN method
  ELSE IF method = "HEAD" /\ "GET" \in Exported THEN "GET"
  ELSE null

\* route.ts:6-8: GET up to its `await fetch(url)`.
GET(i, q) ==
  /\ HandlerFor(q.method) = "GET"
  /\ Invoke(i, q)
  /\ sent' = [sent EXCEPT ![i] = <<GetRequest(url'[i], q)>>]
  /\ pc' = [pc EXCEPT ![i] = "fetch"]

\* route.ts:13-15: POST up to its `await req.text()`.
POST(i, q) ==
  /\ HandlerFor(q.method) = "POST"
  /\ Invoke(i, q)
  /\ pc' = [pc EXCEPT ![i] = "reqText"]
  /\ UNCHANGED sent

\* route.ts:15-16: req.text() resolves, POST goes on to its `await fetch(...)`.
ReqTextResolves(i) ==
  /\ pc[i] = "reqText"
  /\ body' = [body EXCEPT ![i] = Some(Utf8Decode(req[i].body))]
  /\ sent' = [sent EXCEPT ![i] = <<PostRequest(url[i], req[i], body'[i][1])>>]
  /\ pc' = [pc EXCEPT ![i] = "fetch"]
  /\ UNCHANGED <<demoVars, knowledgeVars, authVars, env, BACKEND, req, url, answers, r, text, result>>

\* Inside fetch (route.ts:8 and :16): the upstream answers with a redirect,
\* fetch sends the next request.
FetchRedirects(i, answer) ==
  /\ pc[i] = "fetch"
  /\ IsRedirect(answer)
  /\ Len(answers[i]) < MaxRedirects
  /\ answers' = [answers EXCEPT ![i] = Append(@, answer)]
  /\ sent' = [sent EXCEPT ![i] =
                Append(@, RedirectedRequest(sent[i][Len(sent[i])], answer))]
  /\ UNCHANGED <<demoVars, knowledgeVars, authVars, env, BACKEND, pc, req, url, body, r, text, result>>

\* route.ts:8-9 and :16-17: fetch resolves with the upstream's answer, the
\* handler goes on to its `await r.text()`.
FetchResolves(i, answer) ==
  /\ pc[i] = "fetch"
  /\ ~IsRedirect(answer)
  /\ answers' = [answers EXCEPT ![i] = Append(@, answer)]
  /\ r' = [r EXCEPT ![i] = answer]
  /\ pc' = [pc EXCEPT ![i] = "text"]
  /\ UNCHANGED <<demoVars, knowledgeVars, authVars, env, BACKEND, req, url, body, sent, text, result>>

\* A handler that swallowed the rejection and never settled.
FetchRejectsHangs(i) ==
  /\ pc[i] = "fetch"
  /\ pc' = [pc EXCEPT ![i] = "hung"]
  /\ UNCHANGED <<demoVars, knowledgeVars, authVars, env, BACKEND, req, url, body, sent, answers, r, text, result>>

\* route.ts:8 and :16: fetch rejects (the upstream cannot be reached); no
\* try/catch, the handler's promise rejects.
FetchRejects(i) ==
  /\ pc[i] = "fetch"
  /\ result' = [result EXCEPT ![i] = Thrown("NetworkError")]
  /\ pc' = [pc EXCEPT ![i] = "threw"]
  /\ UNCHANGED <<demoVars, knowledgeVars, authVars, env, BACKEND, req, url, body, sent, answers, r, text>>

\* route.ts:9-10 and :17-18: r.text() resolves and the handler returns
\* new Response(...), or throws what the constructor throws.
TextResolves(i) ==
  /\ pc[i] = "text"
  /\ text' = [text EXCEPT ![i] = Some(Utf8Decode(r[i].body))]
  /\ result' = [result EXCEPT ![i] = NewResponse(text'[i][1], r[i])]
  /\ pc' = [pc EXCEPT ![i] =
              IF result'[i].kind = "response" THEN "done" ELSE "threw"]
  /\ UNCHANGED <<demoVars, knowledgeVars, authVars, env, BACKEND, req, url, body, sent, answers, r>>

\* route.ts:9 and :17: r.text() rejects (the connection breaks while the
\* body is read); the handler's promise rejects.
TextRejects(i) ==
  /\ pc[i] = "text"
  /\ result' = [result EXCEPT ![i] = Thrown("NetworkError")]
  /\ pc' = [pc EXCEPT ![i] = "threw"]
  /\ UNCHANGED <<demoVars, knowledgeVars, authVars, env, BACKEND, req, url, body, sent, answers, r, text>>

\* The handler's promise has settled and the host has answered the caller:
\* the invocation and its locals are gone, nothing of it is kept.
Settled(i) ==
  /\ pc[i] \in {"done", "threw"}
  /\ pc' = [pc EXCEPT ![i] = "idle"]
  /\ req' = [req EXCEPT ![i] = NoRequest]
  /\ url' = [url EXCEPT ![i] = null]
  /\ body' = [body EXCEPT ![i] = Unset]
  /\ sent' = [sent EXCEPT ![i] = <<>>]
  /\ answers' = [answers EXCEPT ![i] = <<>>]
  /\ r' = [r EXCEPT ![i] = NoResponse]
  /\ text' = [text EXCEPT ![i] = Unset]
  /\ result' = [result EXCEPT ![i] = Pending]
  /\ UNCHANGED <<demoVars, knowledgeVars, authVars, env, BACKEND>>

\* An inbound request with a method route.ts exports no handler for: the
\* host answers it (405, or 204 to OPTIONS) and runs no code of the module.
NoHandler(i, q) ==
  /\ pc[i] = "idle"
  /\ HandlerFor(q.method) = null
  /\ req' = [req EXCEPT ![i] = q]
  /\ result' = [result EXCEPT ![i] =
                  Returned(IF q.method = "OPTIONS" THEN 204 ELSE 405, <<>>, <<>>)]
  /\ pc' = [pc EXCEPT ![i] = "done"]
  /\ UNCHANGED <<demoVars, knowledgeVars, authVars, env, BACKEND, url, body, sent, answers, r, text>>

\* The environment variable is given another value after the module was
\* loaded; route.ts:4 has run already and does not run again.
EnvChanges(value) ==
  /\ env' = value
  /\ env' # env
  /\ UNCHANGED <<demoVars, knowledgeVars, authVars, BACKEND, pc, req, url, body, sent, answers, r, text, result>>

-----------------------------------------------------------------------------
(* The inbound requests and the upstream's answers the model draws from.   *)

Segs == {"a", "b"}
\* The [...path] capture: at least one segment.
Paths(n) == UNION {[1..k -> Segs] : k \in 1..n}

\* req.nextUrl.search: "" or "?" and the query.
Searches == {"", "?x=1"}

\* Byte strings bodies are built of: an ASCII letter, a two-byte character,
\* a lead byte with no continuation, a byte order mark.
BodyChunks == {<<65>>, <<195, 169>>, <<195>>, BOM}

RECURSIVE Bodies(_)
Bodies(n) ==
  IF n = 0 THEN {<<>>}
  ELSE LET shorter == Bodies(n - 1)
       IN shorter \cup {s \o c : s \in shorter, c \in BodyChunks}

\* The Headers with the given (name, value) pairs.
Headers(pairs) ==
  [n \in {p[1] : p \in pairs} |-> (CHOOSE p \in pairs : p[1] = n)[2]]

\* What the pages send: a bearer token or none; no Content-Type, an empty
\* one, a JSON body's, a multipart upload's.
InboundHeaders ==
  {Headers(a \cup c) :
     a \in {{}, {<<Authorization, "Bearer t">>}},
     c \in {{}, {<<ContentType, "">>},
            {<<ContentType, "multipart/form-data; boundary=x">>}}}

Inbound(methods, paths, searches, headers, bodies) ==
  {[method |-> m, path |-> p, search |-> s, headers |-> h,
    body |-> IF m = "GET" THEN <<>> ELSE b] :
     m \in methods, p \in paths, s \in searches, h \in headers, b \in bodies}

Answers(statuses, ctypes, bodies) ==
  {[status |-> st, headers |-> Headers(c), body |-> b] :
     st \in statuses, c \in ctypes, b \in bodies}
  \cup
  {[status |-> st, headers |-> Headers({<<Location, "http://localhost:8000/moved">>}),
    body |-> <<>>] : st \in statuses \cap RedirectStatus}

StatusCodes == {200, 204, 302, 304, 307, 500}
AnswerContentTypes == {{}, {<<ContentType, "">>}, {<<ContentType, "text/html">>}}

\* Every shape of path, query and headers; two bodies; a few answers.
UrlInbound ==
  Inbound({"GET", "POST"}, Paths(MaxSegs), Searches, InboundHeaders,
          {<<>>, <<65>>})
\* Every body; one path, with and without a Content-Type.
BodyInbound ==
  Inbound({"GET", "POST"}, {<<"a">>}, {""},
          {Headers({}), Headers({<<ContentType, "multipart/form-data; boundary=x">>})},
          Bodies(MaxBodyChunks))
\* The two methods, a bearer token, one path.
FewInbound ==
  Inbound({"GET", "POST"}, {<<"a", "b">>}, {"?x=1"},
          {Headers({<<Authorization, "Bearer t">>})}, {<<65>>})

FewAnswers ==
  Answers({200, 204, 307, 404}, {{}, {<<ContentType, "text/html">>}}, {<<65>>})
AllAnswers == Answers(StatusCodes, AnswerContentTypes, Bodies(MaxBodyChunks))
\* Two answers with a body and a redirect.
ConcurrentAnswers ==
  Answers({200, 204}, {{}}, {<<66>>}) \cup Answers({307}, {}, {})

-----------------------------------------------------------------------------
(* The specifications.                                                     *)

Step(i, inbound, upstream) ==
  \/ \E q \in inbound : GET(i, q)
  \/ \E q \in inbound : POST(i, q)
  \/ ReqTextResolves(i)
  \/ \E answer \in upstream : FetchRedirects(i, answer)
  \/ \E answer \in upstream : FetchResolves(i, answer)
  \/ FetchRejects(i)
  \/ TextResolves(i)
  \/ TextRejects(i)
  \/ Settled(i)

\* One invocation at a time.
Sequential == {1}

\* The request side: every inbound path, query and header set.
Next == \E i \in Sequential : Step(i, UrlInbound, FewAnswers)
Spec == Init /\ [][Next]_vars

\* The request body: every inbound body.
NextBody == \E i \in Sequential : Step(i, BodyInbound, FewAnswers)
SpecBody == Init /\ [][NextBody]_vars

\* The response side: every upstream answer.
NextRelay == \E i \in Sequential : Step(i, FewInbound, AllAnswers)
SpecRelay == Init /\ [][NextRelay]_vars

\* The module in its host: every base the environment can configure, the
\* environment changing while requests are served, every HTTP method.
Environments == {null, "", "http://example.test", "http://example.test/"}
Methods == {"GET", "POST", "PUT", "DELETE", "PATCH", "HEAD", "OPTIONS"}
HostInbound ==
  Inbound(Methods, Paths(MaxSegs) \cup {<<"foo", "bar">>}, Searches,
          {Headers({})}, {<<65>>})

InitHost ==
  /\ env \in Environments
  /\ BACKEND = BackendOf(env)
  /\ pc = [i \in Slots |-> "idle"]
  /\ req = [i \in Slots |-> NoRequest]
  /\ url = [i \in Slots |-> null]
  /\ body = [i \in Slots |-> Unset]
  /\ sent = [i \in Slots |-> <<>>]
  /\ answers = [i \in Slots |-> <<>>]
  /\ r = [i \in Slots |-> NoResponse]
  /\ text = [i \in Slots |-> Unset]
  /\ result = [i \in Slots |-> Pending]
  /\ Mounted
  /\ KnowledgeMounted
  /\ AuthMounted

NextHost ==
  \/ \E i \in Sequential : Step(i, HostInbound, ConcurrentAnswers)
  \/ \E i \in Sequential : \E q \in HostInbound : NoHandler(i, q)
  \/ \E value \in Environments : EnvChanges(value)
SpecHost == InitHost /\ [][NextHost]_vars

\* The demo chat in the browser; the route module is loaded and idle.
InitDemo == Init /\ env = null
SpecDemo == InitDemo /\ [][NextDemo]_vars

\* The knowledge page in the browser; the route module is loaded and idle.
SpecKnowledge == InitDemo /\ [][NextKnowledge]_vars

\* The auth provider in the browser; the route module is loaded and idle.
SpecAuth == InitDemo /\ [][NextAuth]_vars

\* Several invocations together: the host starts a handler for each inbound
\* request, and the handlers' awaits interleave.
InitConcurrent == Init /\ env = "http://example.test"
NextInterleaved == \E i \in Slots : Step(i, FewInbound, ConcurrentAnswers)
SpecInterleaved == InitConcurrent /\ [][NextInterleaved]_vars

\* The same with the awaits settling in the end; one answer and a redirect.
LiveAnswers == Answers({200}, {{}}, {<<66>>}) \cup Answers({307}, {}, {})
NextConcurrent == \E i \in Slots : Step(i, FewInbound, LiveAnswers)

\* What resumes a suspended handler: req.text() resolves, fetch resolves or
\* rejects, r.text() resolves or rejects.
Resumes(i) ==
  \/ ReqTextResolves(i)
  \/ \E answer \in LiveAnswers : FetchResolves(i, answer)
  \/ FetchRejects(i)
  \/ TextResolves(i)
  \/ TextRejects(i)

\* Every await of a handler is settled in the end: the inbound body is read,
\* the host's fetch answers or gives up (connection failure, or its headers
\* and body timeouts on a silent upstream; it follows a bounded number of
\* redirects), and the event loop runs the continuation.
SpecConcurrent ==
  InitConcurrent /\ [][NextConcurrent]_vars /\ \A i \in Slots : WF_vars(Resumes(i))

-----------------------------------------------------------------------------
(* The claims about the request the forwarder sends.                       *)

Finished(i) == pc[i] \in {"done", "threw"}

\* The segments in their order with one '/' between neighbours, built from
\* the last segment backwards.
RECURSIVE PathText(_)
PathText(path) ==
  IF Len(path) = 1 THEN path[1]
  ELSE PathText(SubSeq(path, 1, Len(path) - 1)) \o "/" \o path[Len(path)]

\* C1: for every inbound GET or POST with captured segments s1..sn and query
\* string q, the URL the handler gives to fetch is BACKEND, '/', the
\* segments in their inbound order joined by '/', then q unchanged.
C1_UpstreamUrl ==
  \A i \in Slots :
    sent[i] # <<>> =>
      sent[i][1].url = BACKEND \o "/" \o PathText(req[i].path) \o req[i].search

\* C1's case: a POST of /b/a?x=1 has been handed to fetch.
C1_Witness ==
  \E i \in Slots :
    /\ pc[i] = "fetch"
    /\ req[i].method = "POST"
    /\ req[i].path = <<"b", "a">>
    /\ req[i].search = "?x=1"
    /\ sent[i][1].url = BACKEND \o "/b/a?x=1"

\* C2: every header of the inbound request is on the upstream request with
\* the same value.
C2_HeadersReplayed ==
  \A i \in Slots :
    sent[i] # <<>> =>
      \A h \in DOMAIN req[i].headers :
        HeadersGet(sent[i][1].headers, h) = req[i].headers[h]

\* C3: the body of the upstream request of a POST is the inbound body, byte
\* for byte.
C3_BodyVerbatim ==
  \A i \in Slots :
    req[i].method = "POST" /\ sent[i] # <<>> =>
      sent[i][1].body = Some(req[i].body)

\* C5 as claimed: the Content-Type of the upstream POST is the inbound
\* request's Content-Type whenever the inbound request has that header,
\* application/json otherwise.
C5_ContentTypeWhenPresent ==
  \A i \in Slots : \A k \in DOMAIN sent[i] :
    sent[i][k].method = "POST" =>
      HeadersGet(sent[i][k].headers, ContentType) =
        IF ContentType \in DOMAIN req[i].headers
        THEN req[i].headers[ContentType] ELSE ApplicationJson

\* C5 as amended: the Content-Type of the upstream POST is the inbound
\* request's Content-Type when the inbound request has a non-empty one, and
\* application/json when it has none or an empty one.
C5_ContentTypeWhenNonEmpty ==
  \A i \in Slots : \A k \in DOMAIN sent[i] :
    sent[i][k].method = "POST" =>
      HeadersGet(sent[i][k].headers, ContentType) =
        IF ContentType \in DOMAIN req[i].headers /\ req[i].headers[ContentType] # ""
        THEN req[i].headers[ContentType] ELSE ApplicationJson

\* C5's case: a POST with an empty Content-Type has gone upstream as
\* application/json.
C5_Witness ==
  \E i \in Slots :
    /\ pc[i] = "fetch"
    /\ req[i].method = "POST"
    /\ HeadersGet(req[i].headers, ContentType) = ""
    /\ sent[i][1].headers[ContentType] = ApplicationJson

-----------------------------------------------------------------------------
(* The claims about the response the forwarder returns.                    *)

\* The upstream answered and its body was read to the end.
Answered(i) == Finished(i) /\ text[i] # Unset

\* The Content-Type the handler declares for an upstream answer: the
\* answer's own when it has a non-empty one, application/json otherwise.
DeclaredContentType(answer) ==
  IF ContentType \in DOMAIN answer.headers /\ answer.headers[ContentType] # ""
  THEN answer.headers[ContentType] ELSE ApplicationJson

\* Well-formed UTF-8 from byte k on (the Unicode standard's table of
\* well-formed byte sequences).
RECURSIVE WellFormedFrom(_, _)
WellFormedFrom(bs, k) ==
  LET In(j, lo, hi) == j <= Len(bs) /\ bs[j] >= lo /\ bs[j] <= hi
  IN \/ k > Len(bs)
     \/ In(k, 0, 127) /\ WellFormedFrom(bs, k + 1)
     \/ In(k, 194, 223) /\ In(k + 1, 128, 191) /\ WellFormedFrom(bs, k + 2)
     \/ /\ \/ In(k, 224, 224) /\ In(k + 1, 160, 191)
           \/ In(k, 225, 236) /\ In(k + 1, 128, 191)
           \/ In(k, 237, 237) /\ In(k + 1, 128, 159)
           \/ In(k, 238, 239) /\ In(k + 1, 128, 191)
        /\ In(k + 2, 128, 191)
        /\ WellFormedFrom(bs, k + 3)
     \/ /\ \/ In(k, 240, 240) /\ In(k + 1, 144, 191)
           \/ In(k, 241, 243) /\ In(k + 1, 128, 191)
           \/ In(k, 244, 244) /\ In(k + 1, 128, 143)
        /\ In(k + 2, 128, 191)
        /\ In(k + 3, 128, 191)
        /\ WellFormedFrom(bs, k + 4)

\* Text a text() read and a re-encoding leave as it is.
PlainUtf8(bs) ==
  /\ WellFormedFrom(bs, 1)
  /\ ~(Len(bs) >= 3 /\ SubSeq(bs, 1, 3) = BOM)

\* C4: whenever the upstream returned a response, the caller gets a response
\* with the upstream's status code.
C4_StatusRelayed ==
  \A i \in Slots :
    Answered(i) =>
      result[i].kind = "response" /\ result[i].status = r[i].status

\* C6 as claimed: a relayed response declares the upstream's Content-Type
\* whenever the upstream sent that header, application/json otherwise.
C6_ContentTypeWhenSent ==
  \A i \in Slots :
    result[i].kind = "response" =>
      HeadersGet(result[i].headers, ContentType) =
        IF ContentType \in DOMAIN r[i].headers
        THEN r[i].headers[ContentType] ELSE ApplicationJson

\* C6 as amended: a relayed response declares the upstream's Content-Type
\* when the upstream sent a non-empty one, and application/json when the
\* upstream omitted it or sent it empty.
C6_ContentTypeWhenNonEmpty ==
  \A i \in Slots :
    result[i].kind = "response" =>
      HeadersGet(result[i].headers, ContentType) = DeclaredContentType(r[i])

\* C6's case: an answer with an empty Content-Type was relayed as
\* application/json.
C6_Witness ==
  \E i \in Slots :
    /\ pc[i] = "done"
    /\ HeadersGet(r[i].headers, ContentType) = ""
    /\ result[i].headers[ContentType] = ApplicationJson

\* C7 as claimed: the body of a relayed response is the upstream body,
\* nothing added, removed or transformed.
C7_BodyVerbatim ==
  \A i \in Slots :
    result[i].kind = "response" => result[i].body = r[i].body

\* C7 as amended: the body of a relayed response is the upstream body read
\* as UTF-8 text (a leading byte order mark dropped, every malformed
\* sequence replaced by U+FFFD) and encoded again; it is the upstream body
\* byte for byte when that is well-formed UTF-8 with no byte order mark.
C7_BodyThroughText ==
  \A i \in Slots :
    result[i].kind = "response" =>
      /\ result[i].body = Utf8Encode(Utf8Decode(r[i].body))
      /\ PlainUtf8(r[i].body) => result[i].body = r[i].body

\* C7's case: an answer whose body is a two-byte character and then a lone
\* lead byte was relayed with U+FFFD's three bytes for the lone byte.
C7_Witness ==
  \E i \in Slots :
    /\ pc[i] = "done"
    /\ r[i].body = <<195, 169, 195>>
    /\ result[i].body = <<195, 169, 239, 191, 189>>

\* C8: every upstream answer with a non-2xx status reaches the caller as it
\* is, with that status (and the content type and body the handler derives
\* from that answer), and its status makes the handler throw nothing.
C8_ErrorsRelayed ==
  \A i \in Slots :
    Answered(i) =>
      \A k \in DOMAIN answers[i] :
        answers[i][k].status \notin 200..299 =>
          result[i] = Returned(answers[i][k].status,
                               (ContentType :> DeclaredContentType(answers[i][k])),
                               Utf8Encode(Utf8Decode(answers[i][k].body)))

\* C9: an inbound request that got as far as fetch has caused exactly one
\* upstream request, whatever the upstream answered.
C9_OneUpstreamRequest ==
  \A i \in Slots :
    pc[i] \in {"fetch", "text", "done", "threw"} => Len(sent[i]) = 1

\* C10: a fetch that cannot reach the upstream makes the handler throw, with
\* no response built; and a forwarding operation ends in one of two ways
\* only, the relayed upstream response or the transport failure.
C10_TwoOutcomes ==
  \A i \in Slots :
    Finished(i) =>
      /\ r[i] = NoResponse => result[i] = Thrown("NetworkError")
      /\ \/ result[i].kind = "response" /\ result[i].status = r[i].status
         \/ result[i] = Thrown("NetworkError")

-----------------------------------------------------------------------------
(* The claims about termination and about invocations running together.    *)

InFlight(i) == pc[i] \in {"reqText", "fetch", "text"}

\* What invocation i holds: its position, its locals, its requests and
\* answers, its outcome.
Invocation(i) ==
  <<pc[i], req[i], url[i], body[i], sent[i], answers[i], r[i], text[i], result[i]>>

\* C11: every invocation that is in flight ends, with a response or with an
\* error; the step in which a connection fails (fetch or the body read
\* rejects) ends that invocation as an error, and changes nothing of any other
\* invocation.
C11_EventuallyEnds ==
  /\ \A i \in Slots : InFlight(i) ~> Finished(i)
  /\ [][\A i \in Slots :
          (InFlight(i) /\ result'[i] = Thrown("NetworkError")) =>
            /\ pc'[i] = "threw"
            /\ \A j \in Slots \ {i} : Invocation(j)' = Invocation(j)]_vars

\* One invocation ended by a connection failure while another got its
\* response.
C11_Witness ==
  \E i \in Slots : \E j \in Slots \ {i} :
    /\ pc[i] = "threw" /\ result[i] = Thrown("NetworkError")
    /\ pc[j] = "done" /\ result[j].kind = "response"

\* C12: under every interleaving, each caller whose upstream answered gets
\* the response to its own upstream request: its status, its content type
\* (as the handler declares it) and its body (as the handler read it).
C12_OwnResponse ==
  \A i \in Slots :
    Answered(i) =>
      LET own == answers[i][Len(answers[i])]
      IN result[i] = Returned(own.status,
                              (ContentType :> DeclaredContentType(own)),
                              Utf8Encode(Utf8Decode(own.body)))

\* The other half of C12: a step changes one invocation only, what an
\* invocation holds comes from its own request and its own answers, and an
\* idle slot holds nothing of the invocations before it.
C12_NoInterference ==
  [][/\ \A i \in Slots : \A j \in Slots \ {i} :
          Invocation(i)' # Invocation(i) => Invocation(j)' = Invocation(j)
     /\ \A i \in Slots :
          /\ pc'[i] = "idle" =>
               Invocation(i)' =
                 <<"idle", NoRequest, null, Unset, <<>>, <<>>, NoResponse, Unset, Pending>>
          /\ pc'[i] # "idle" =>
               /\ url'[i] = TargetUrl(BACKEND, req'[i].path, req'[i].search)
               /\ \/ r'[i] = NoResponse
                  \/ /\ answers'[i] # <<>>
                     /\ r'[i] = answers'[i][Len(answers'[i])]
               /\ result'[i].kind = "response" => result'[i].status = r'[i].status]_vars

-----------------------------------------------------------------------------
(* The claims about the base, the shape of the URL and the methods.        *)

\* C13: BACKEND is computed when the module is loaded, as the environment
\* variable's value when that is set and not empty and as
\* 'http://localhost:8000' otherwise; no step changes it, and every handler
\* invoked later builds its URL on it, whatever the environment has become.
C13_BaseFixedAtLoad ==
  /\ BACKEND = IF env = null \/ env = "" THEN "http://localhost:8000" ELSE env
  /\ [][/\ BACKEND' = BACKEND
        /\ \A i \in Slots :
             (pc[i] = "idle" /\ url'[i] # null) =>
               url'[i] = BACKEND \o "/" \o PathText(req'[i].path) \o req'[i].search]_vars

\* C13's case: the module was loaded with the variable unset or empty, the
\* variable has been set since, and a request is on its way to the default.
C13_Witness ==
  \E i \in Slots :
    /\ env = "http://example.test"
    /\ BACKEND = "http://localhost:8000"
    /\ pc[i] = "fetch"
    /\ sent[i][1].url = "http://localhost:8000/foo/bar"

EndsWithSlash(str) == Len(str) > 0 /\ SubSeq(str, Len(str), Len(str)) = "/"

\* Where the part after the scheme's "://" begins.
AfterScheme(u) ==
  3 + CHOOSE k \in 1..Len(u) :
        /\ SubSeq(u, k, k + 2) = "://"
        /\ \A j \in 1..(k - 1) : SubSeq(u, j, j + 2) # "://"

NoDoubleSlash(u) ==
  \A k \in AfterScheme(u)..(Len(u) - 1) : SubSeq(u, k, k + 1) # "//"

\* The handler's url without its query string.
UrlPath(i) == SubSeq(url[i], 1, Len(url[i]) - Len(req[i].search))

KeepsLastSegment(i) ==
  LET last == req[i].path[Len(req[i].path)]
      u == UrlPath(i)
  IN SubSeq(u, Len(u) - Len(last), Len(u)) = "/" \o last

\* C14 as claimed: for every configured base and every segment sequence the
\* computed URL has no double slash after the scheme and ends with the last
\* segment, and with base 'http://example.test' and path /foo/bar it is
\* 'http://example.test/foo/bar'.
C14_NoDoubleSlash ==
  \A i \in Slots :
    url[i] # null =>
      /\ NoDoubleSlash(UrlPath(i))
      /\ KeepsLastSegment(i)
      /\ (BACKEND = "http://example.test" /\ req[i].path = <<"foo", "bar">>) =>
           UrlPath(i) = "http://example.test/foo/bar"

\* C14 as amended: the computed URL is the configured base, one '/', the
\* segments with one '/' between neighbours, and the query string; it ends
\* with the last segment; with base 'http://example.test' and path /foo/bar
\* it is 'http://example.test/foo/bar'; it has no double slash after the
\* scheme when the configured base does not end with '/', and it has '//'
\* before the first segment when the base does.
C14_OneSlashAdded ==
  \A i \in Slots :
    url[i] # null =>
      /\ url[i] = BACKEND \o "/" \o PathText(req[i].path) \o req[i].search
      /\ KeepsLastSegment(i)
      /\ (BACKEND = "http://example.test" /\ req[i].path = <<"foo", "bar">>) =>
           UrlPath(i) = "http://example.test/foo/bar"
      /\ ~EndsWithSlash(BACKEND) => NoDoubleSlash(UrlPath(i))
      /\ EndsWithSlash(BACKEND) =>
           SubSeq(url[i], Len(BACKEND), Len(BACKEND) + 1) = "//"

\* C14's case: the base configured without a trailing '/', the path
\* /foo/bar with a query string.
C14_Witness ==
  \E i \in Slots :
    /\ env = "http://example.test"
    /\ req[i].path = <<"foo", "bar">>
    /\ url[i] = "http://example.test/foo/bar?x=1"

\* C15: the request the handler hands to fetch has the inbound method, GET
\* for an inbound GET and POST for an inbound POST, and no upstream GET, the
\* handler's or one fetch sends after a redirect, carries a body.
C15_MethodKept ==
  \A i \in Slots :
    sent[i] # <<>> =>
      /\ req[i].method \in {"GET", "POST"} => sent[i][1].method = req[i].method
      /\ \A k \in DOMAIN sent[i] :
           sent[i][k].method = "GET" => sent[i][k].body = Unset

\* C15's case: an inbound GET whose upstream request is out, as a GET with
\* no body.
C15_Witness ==
  \E i \in Slots :
    /\ pc[i] = "fetch"
    /\ req[i].method = "GET"
    /\ sent[i] = <<[method |-> "GET", url |-> url[i], headers |-> <<>>,
                    body |-> Unset]>>

\* C16 as claimed: an inbound request with a method other than GET and POST
\* causes no upstream request.
C16_OnlyGetAndPost ==
  \A i \in Slots :
    req[i].method \notin {"GET", "POST"} => sent[i] = <<>>

\* C16 as amended: an inbound PUT, DELETE, PATCH or OPTIONS request runs no
\* handler and causes no upstream request; an inbound HEAD request is served
\* through the GET handler and causes an upstream GET.
C16_OnlyExportedRun ==
  \A i \in Slots :
    /\ req[i].method \notin {"GET", "POST", "HEAD"} =>
         /\ sent[i] = <<>>
         /\ url[i] = null
         /\ pc[i] \in {"idle", "done"}
    /\ (req[i].method = "HEAD" /\ pc[i] # "idle") =>
         /\ sent[i] # <<>>
         /\ sent[i][1].method = "GET"

\* C16's case: a PUT was answered 405 with no upstream request.
C16_Witness ==
  \E i \in Slots :
    /\ req[i].method = "PUT"
    /\ pc[i] = "done"
    /\ result[i].status = 405
    /\ sent[i] = <<>>

-----------------------------------------------------------------------------
(* The claims about the demo chat.                                         *)

\* C17 as claimed: a call of sendMessage posts to /api/start exactly when
\* the session id it holds is null; after a call whose start succeeded no
\* later call posts to /api/start; a start that failed or was not ok stores
\* no id and the call still sends its chat request; and the session id is
\* null as long as no start has succeeded.
C17_StartOnlyIfNeeded ==
  /\ \A c \in Used :
       /\ calls[c].start # "none" <=> calls[c].sessionId = null
       /\ \A d \in Used : (d < c /\ calls[d].start = "ok") => calls[c].start = "none"
       /\ calls[c].start \in {"rejected", "unreadable", "notok"} =>
            calls[c].startedId = null /\ calls[c].chat # <<>>
  /\ (\A c \in Used : calls[c].start # "ok") => sessionId = null

\* C17 as amended: a call of sendMessage posts to /api/start exactly when
\* the session id it holds is null or empty; after a call whose start
\* succeeded and returned a non-empty id no later call posts to /api/start,
\* and the later calls hold a non-empty id; a start that was not ok stores no id and
\* the call still sends its chat request; a start that threw (the fetch
\* rejected, or the ok answer's JSON could not be read) stores no id and the
\* call sends no chat request and ends with the fixed message; and the
\* session id is null as long as no start has succeeded.
C17_StartWhenFalsy ==
  /\ \A c \in Used :
       /\ calls[c].start # "none" <=> (calls[c].sessionId = null \/ calls[c].sessionId = "")
       /\ \A d \in Used :
            (d < c /\ calls[d].start = "ok" /\ calls[d].startedId \notin {null, ""}) =>
              calls[c].start = "none" /\ calls[c].sessionId \notin {null, ""}
       /\ calls[c].start = "notok" =>
            calls[c].startedId = null /\ calls[c].chat = <<ChatRequest(calls[c])>>
       /\ calls[c].start \in {"rejected", "unreadable"} =>
            /\ calls[c].startedId = null
            /\ calls[c].chat = <<>>
            /\ calls[c].at = "finished"
            /\ calls[c].appended = Trouble
  /\ (\A c \in Used : calls[c].start # "ok") => sessionId = null

\* C17's case: the first call started a session, the second call holds its
\* id and went to the chat request with no start.
C17_Witness ==
  \E c \in Used : \E d \in Used :
    /\ d < c
    /\ calls[d].start = "ok" /\ calls[d].startedId = "s1"
    /\ calls[c].start = "none"
    /\ calls[c].chat = <<[text |-> "hi", session_id |-> "s1"]>>

\* C18: in a call whose start succeeded, the chat request carries the
\* session id the start returned, and never null.
C18_ChatCarriesStartedId ==
  \A c \in Used :
    (calls[c].start = "ok" /\ calls[c].chat # <<>>) =>
      /\ calls[c].chat[1].session_id = calls[c].startedId
      /\ calls[c].chat[1].session_id # null

Finishes == {c \in CallIds : calls[c].at = "finished"}

\* C19: the list is the greeting, then for each call that went past line 28
\* its user message and, once the call has finished, one assistant message
\* right after it: a reply when the chat answer was ok and readable, the
\* fixed message in every other case; nothing else is in the list, and
\* loading is false whenever no call is suspended.
C19_OneReplyPerSend ==
  /\ messages[1] = Message("assistant", Greeting)
  /\ Len(messages) = 1 + Cardinality(Used) + Cardinality(Finishes)
  /\ \A c \in Used :
       /\ messages[2 * c] = Message("user", calls[c].userMessage)
       /\ c \in Finishes =>
            /\ messages[2 * c + 1] = Message("assistant", calls[c].appended)
            /\ calls[c].appended \in
                 IF calls[c].chatGot = "ok" THEN Replies ELSE {Trouble}
  /\ Suspended = {} => loading = FALSE

\* C19's case: two sends have finished, the first with the backend's reply
\* and the second with the fixed message.
C19_Witness ==
  /\ Suspended = {}
  /\ Len(messages) = 5
  /\ messages[2].role = "user" /\ messages[4].role = "user"
  /\ messages[3] = Message("assistant", "It is free.")
  /\ messages[5] = Message("assistant", Trouble)
  /\ loading = FALSE

\* C20: at most one call of sendMessage is suspended at any time, and loading
\* is true while one is; and in a state whose rendered input is empty when
\* trimmed, or whose rendered loading is true, no step begins a call or
\* appends a user message, and a step of sendMessage changes neither
\* messages, input, loading, sessionId nor any call.
C20_OneSendInFlight ==
  /\ [](Cardinality(Suspended) <= 1 /\ (Suspended # {} => loading))
  /\ [][(Trim(rendered.input) = "" \/ rendered.loading) =>
          /\ {c \in CallIds : calls'[c].at # "unused"} = Used
          /\ Len(messages') > Len(messages) =>
               messages'[Len(messages')].role = "assistant"
          /\ lastSend' # lastSend =>
               UNCHANGED <<messages, input, loading, sessionId, rendered, calls>>]_vars

\* C20's case: while a call is suspended at its chat request and the input
\* holds a suggestion, sendMessage was called again and returned at line 28.
C20_Witness ==
  \E c \in Used :
    /\ calls[c].at = "chat"
    /\ rendered.loading
    /\ rendered.input = Suggestion
    /\ lastSend = "returned"

-----------------------------------------------------------------------------
(* Claims about the knowledge page.                                        *)

\* The suspended calls of fetchDocuments that a call of handleFileUpload
\* awaits.
AwaitedBy(c) == {f \in FetchesInFlight : fetches[f].awaitedBy = c}

\* C21: in every call of handleFileUpload, the files whose upload answer was
\* ok are exactly the files after which the call awaited fetchDocuments: the
\* call is suspended on one fetchDocuments, for the chatbot it uploads to,
\* exactly while the answer of its current file is ok and that refresh has not
\* ended; the refresh of every earlier ok file has ended; the upload of a file
\* is in flight only when every earlier file has been answered; and no
\* fetchDocuments is awaited for a file whose upload was rejected or not ok.
C21_RefreshAfterEachOk ==
  \A c \in UploadIds :
    LET upload == uploads[c]
        answered == 1..Len(upload.results)
    IN /\ \A k \in answered :
            upload.results[k] = "ok" <=>
              \/ k \in upload.refreshed
              \/ upload.at = "refresh" /\ k = upload.i
       /\ upload.refreshed \subseteq answered
       /\ upload.at = "upload" => Len(upload.results) = upload.i - 1
       /\ upload.at = "refresh" =>
            /\ Len(upload.results) = upload.i
            /\ Cardinality(AwaitedBy(c)) = 1
            /\ \A f \in AwaitedBy(c) : fetches[f].chatbot = upload.chatbot
       /\ upload.at # "refresh" => AwaitedBy(c) = {}

\* C21's case: the upload of a first file was answered ok, its refresh has
\* ended, and the upload of the second file is in flight; and another call
\* whose only file was rejected has finished without a refresh.
C21_Witness ==
  \E c, d \in UploadIds :
    /\ uploads[c].at = "upload"
    /\ uploads[c].i = 2
    /\ uploads[c].results = <<"ok">>
    /\ uploads[c].refreshed = {1}
    /\ uploads[d].at = "finished"
    /\ uploads[d].results = <<"rejected">>
    /\ uploads[d].refreshed = {}

\* The upload requests of a call that has handled its first i files.
RequestsOf(upload) ==
  [k \in 1..upload.i |-> [file |-> upload.files[k], chatbot |-> upload.chatbot]]

\* C22: a call of handleFileUpload has posted its first i files, in list
\* order, each to the chatbot that was selected when it was called, and at
\* most the last of them is unanswered; a finished call has posted all its
\* files, whatever their answers; a call with no chatbot selected or with no
\* files returns without a request; a call is made with the selected chatbot
\* of that moment; and the step that ends a call leaves uploading false.
C22_OneAtATimeInOrder ==
  /\ [](\A c \in UploadsCalled :
          LET upload == uploads[c]
          IN /\ upload.requests = RequestsOf(upload)
             /\ upload.i <= Len(upload.files)
             /\ Len(upload.results) \in {upload.i - 1, upload.i}
             /\ upload.at = "finished" =>
                  /\ upload.i = Len(upload.files)
                  /\ Len(upload.results) = Len(upload.files)
             /\ upload.at = "returned" <=>
                  Unselected(upload.chatbot) \/ Len(upload.files) = 0
             /\ upload.at = "returned" => upload.requests = <<>>)
  /\ [][\A c \in UploadIds :
          /\ uploads[c].at = "unused" /\ uploads'[c].at # "unused" =>
               uploads'[c].chatbot = selectedChatbot
          /\ uploads[c].at # "unused" =>
               /\ uploads'[c].chatbot = uploads[c].chatbot
               /\ uploads'[c].files = uploads[c].files
          /\ uploads[c].at # "finished" /\ uploads'[c].at = "finished" =>
               uploading' = FALSE]_vars

\* C22's case: a call with two files has finished although the upload of its
\* first file was rejected and the answer for its second was not ok, after
\* the other chatbot was selected; and a call with no files has returned.
C22_Witness ==
  \E c, d \in UploadIds :
    /\ uploads[c].at = "finished"
    /\ uploads[c].results = <<"rejected", "notok">>
    /\ uploads[c].requests =
         <<[file |-> "a.pdf", chatbot |-> "1"], [file |-> "b.txt", chatbot |-> "1"]>>
    /\ selectedChatbot = "2"
    /\ uploading = FALSE
    /\ uploads[d].at = "returned"
    /\ uploads[d].files = <<>>

\* C23: loading is true whenever a call of fetchDocuments is suspended on
\* its request; once none is, the documents held for a selected chatbot are
\* that chatbot's (or none); and while the list holds the documents of the
\* selected chatbot and the selection stays, no step replaces them.
C23_ShowsSelectedChatbot ==
  /\ [](FetchesInFlight # {} => knowledgeLoading)
  /\ [](FetchesInFlight = {} /\ ~Unselected(selectedChatbot) =>
          documents \in {<<>>, DocumentsOf(selectedChatbot)})
  /\ [][(/\ ~Unselected(selectedChatbot)
          /\ selectedChatbot' = selectedChatbot
          /\ documents = DocumentsOf(selectedChatbot)) => documents' = documents]_vars

\* C24: uploading is true whenever the upload request of some call of
\* handleFileUpload is in flight.
C24_UploadingWhileInFlight == UploadsInFlight # {} => uploading

-----------------------------------------------------------------------------
(* Claims about the auth provider.                                         *)

\* A value that stands for nothing held.
Nullish(v) == v = null \/ v = undefined

\* C25: whenever no call of login is suspended, user is held exactly when
\* token is, and the storage holds the held token and the JSON text of the
\* held user, or neither key when nothing is held; a call of login returns
\* true exactly when the backend answered ok, and one that returns false
\* changes neither token, user nor the storage; and a step that navigates to
\* /login ends with token, user and both keys cleared.
C25_SessionConsistent ==
  /\ [](logins = <<>> =>
          /\ Nullish(user) <=> Nullish(token)
          /\ localStorage =
               IF Nullish(token) THEN Storage(null, null)
               ELSE Storage(token, Stringify(user)))
  /\ [][Len(logins') < Len(logins) =>
          /\ lastLogin'.returned <=> lastLogin'.answered = "ok"
          /\ ~lastLogin'.returned => UNCHANGED <<user, token, localStorage>>]_vars
  /\ [][pathname' = "/login" /\ pathname # "/login" =>
          /\ token' = null /\ user' = null
          /\ localStorage' = Storage(null, null)]_vars

====
